---- MODULE Spec2Model ----
(***************************************************************************)
(* Model of md-OpenMP_12.c: an all-pairs gravitational N-body integrator   *)
(* whose per-particle update loop is split between OpenMP threads.         *)
(*                                                                         *)
(* A C double is modelled as a fixed-point number: the integer v stands    *)
(* for the real v / Q.  Sums and differences are exact; products,          *)
(* quotients and square roots are rounded toward zero onto the grid, so    *)
(* the arithmetic is deterministic and sign-symmetric like IEEE rounding.  *)
(* The quotient of a zero by a zero is the value NaN, of a nonzero by a    *)
(* zero an infinity.                                                       *)
(***************************************************************************)
EXTENDS Integers, Naturals, Sequences, FiniteSets, TLC

\* ------------------------------------------------------------ bounds
\* largest particle count and step count explored (the program hard-wires
\* NUM = 20000 and TS = 10; the model explores every smaller size)
MaxNum == 3
MaxTS == 2

\* ------------------------------------------------------------ doubles
\* grid units per 1.0
Q == 10000

\* the values of a double that are not finite, and the content of malloc-ed
\* storage that was never written: integers no finite double of the model takes
NaN == 0 - 2147483647
PosInf == 0 - 2147483646
NegInf == 0 - 2147483645
Uninit == 0 - 2147483644

Abs(a) == IF a < 0 THEN -a ELSE a
Sgn(a) == IF a < 0 THEN -1 ELSE IF a > 0 THEN 1 ELSE 0

\* The arithmetic is written as functions, which take their arguments by
\* value; the operators below them give the functions their usual names.

\* a * b on the grid: trunc(a*b/Q), computed by parts so that no
\* intermediate product leaves the machine integers
MulFn[a \in Int, b \in Int] ==
  LET aa == Abs(a)
      bb == Abs(b)
      ah == aa \div Q
      al == aa % Q
      bh == bb \div Q
      bl == bb % Q
  IN  Sgn(a) * Sgn(b) * (ah * bh * Q + ah * bl + al * bh + (al * bl) \div Q)

MulQ(a, b) == MulFn[a, b]

\* long division: `digits` further decimal digits of q + r/b
LongDiv[q \in Nat, r \in Nat, b \in Nat, digits \in Nat] ==
  IF digits = 0 THEN q
  ELSE LongDiv[q * 10 + (r * 10) \div b, (r * 10) % b, b, digits - 1]

\* number of decimal digits of the grid: Q = 10^QDigits
QDigits == 4

\* a / b on the grid: trunc(a*Q/b); IEEE results for a zero divisor
DivFn[a \in Int, b \in Int] ==
  IF b = 0
  THEN (IF a = 0 THEN NaN ELSE IF a > 0 THEN PosInf ELSE NegInf)
  ELSE Sgn(a) * Sgn(b) *
       LongDiv[Abs(a) \div Abs(b), Abs(a) % Abs(b), Abs(b), QDigits]

DivQ(a, b) == DivFn[a, b]

\* r*r <= a*Q, decided without forming a*Q
SqLeq(r, a) ==
  \/ MulQ(r, r) < a
  \/ MulQ(r, r) = a /\ ((r % Q) * (r % Q)) % Q = 0

\* largest r in lo..hi-1 with SqLeq(r, a), by bisection (SqLeq(lo, a) holds)
Bisect[lo \in Nat, hi \in Nat, a \in Nat] ==
  IF hi - lo <= 1 THEN lo
  ELSE IF SqLeq((lo + hi) \div 2, a)
       THEN Bisect[(lo + hi) \div 2, hi, a]
       ELSE Bisect[lo, (lo + hi) \div 2, a]

\* the roots searched lie below this (its square still fits the integers)
SqrtLimit == 4194304

\* sqrt(a) on the grid: trunc(sqrt(a*Q)), a >= 0
SqrtQ(a) == Bisect[0, SqrtLimit, a]

\* ------------------------------------------------------------ state
Arrays == {"mass", "x", "y", "z", "vx", "vy", "vz",
           "old_x", "old_y", "old_z", "old_mass"}

VARIABLES
  num,        \* number of particles
  timesteps,  \* number of steps to integrate
  pc,         \* position of the main thread
  failed,     \* the arrays whose malloc returned NULL
  seed,       \* which pseudo-random sequence rand() produces
  nrand,      \* number of rand() calls made so far
  rc,         \* return code of init()
  mem,        \* the eleven arrays: mem[a][i]
  totalMass,
  partial,    \* the threads' private copies of totalMass in the reduction
  summed,     \* the iterations of the reduction loop already executed
  com,        \* com[0..2], as <<com0, com1, com2>>
  site,       \* which call of calc_centre_mass is running
  axis,       \* calc_centre_mass: outer loop counter
  ci,         \* calc_centre_mass: inner loop counter
  time,       \* time loop counter
  li,         \* LOOP1 counter i
  tpc,        \* LOOP2: position of the iteration for particle i
  priv,       \* LOOP2: the private variables of the iteration for particle i
  acc,        \* LOOP2: the shared locations each iteration has read / written
  pre,        \* the arrays as they were when the current step began
  nsteps,     \* number of LOOP2 regions completed so far
  out,        \* the lines printed so far
  status      \* exit status of the process

vars == <<num, timesteps, pc, failed, seed, nrand, rc, mem, totalMass, partial,
          summed, com, site, axis, ci, time, li, tpc, priv, acc, pre, nsteps, out,
          status>>

Idx == 0 .. num - 1

\* number of OpenMP threads sharing the reduction loop
NumThreads == 2
Threads == 1 .. NumThreads

Line(msg, t, c) == [msg |-> msg, t |-> t, com |-> c]

\* the private variables of one LOOP2 iteration, before it assigns them
PrivInit == [j |-> Uninit, dx |-> Uninit, dy |-> Uninit, dz |-> Uninit,
             temp_d |-> Uninit, d |-> Uninit, F |-> Uninit,
             ax |-> Uninit, ay |-> Uninit, az |-> Uninit,
             vxLocal |-> Uninit, vyLocal |-> Uninit, vzLocal |-> Uninit]

NoAccess == [rd |-> {}, wr |-> {}]

Init ==
  /\ num \in 0 .. MaxNum
  /\ timesteps \in 0 .. MaxTS
  /\ pc = "malloc"
  /\ failed = {}
  /\ seed = 0
  /\ nrand = 0
  /\ rc = Uninit
  /\ mem = [a \in Arrays |-> [i \in 0 .. num - 1 |-> Uninit]]
  /\ totalMass = Uninit
  /\ partial = [t \in Threads |-> 0]
  /\ summed = {}
  /\ com = <<Uninit, Uninit, Uninit>>
  /\ site = "none"
  /\ axis = 0
  /\ ci = 0
  /\ time = 0
  /\ li = 0
  /\ tpc = [i \in 0 .. num - 1 |-> "none"]
  /\ priv = [i \in 0 .. num - 1 |-> PrivInit]
  /\ acc = [i \in 0 .. num - 1 |-> NoAccess]
  /\ pre = mem
  /\ nsteps = 0
  /\ out = <<>>
  /\ status = "running"

\* ------------------------------------------------------------ allocation
\* the eleven malloc calls: each returns storage or NULL
Malloc ==
  /\ pc = "malloc"
  /\ \E F \in SUBSET Arrays : failed' = F
  /\ pc' = "check_malloc"
  /\ out' = Append(out, Line("Initializing", 0, <<>>))
  /\ UNCHANGED <<num, nsteps, timesteps, seed, nrand, rc, mem, totalMass, partial,
                 summed, com, site, axis, ci, time, li, tpc, priv, acc, pre,
                 status>>

\* Faulty variant, for sensitivity of the properties: the failure is retried instead of returned
AbortTarget_Retry == "malloc"
\* where `return -99` takes the main thread
AbortTarget == "aborted"

\* the one pointer the program tests after the malloc calls
CheckedArrays == {"old_mass"}

CheckMalloc ==
  /\ pc = "check_malloc"
  /\ IF CheckedArrays \cap failed # {}
     THEN /\ pc' = AbortTarget
          /\ status' = "-99"
          /\ out' = Append(out, Line("ERROR in malloc", 0, <<>>))
     ELSE /\ pc' = "init"
          /\ status' = status
          /\ out' = Append(out, Line("(malloc-ed)", 0, <<>>))
  /\ UNCHANGED <<num, nsteps, timesteps, failed, seed, nrand, rc, mem, totalMass,
                 partial, summed, com, site, axis, ci, time, li, tpc, priv,
                 acc, pre>>

\* a store or load through a NULL pointer: undefined behaviour.  The process
\* is killed by a signal, or the access goes unnoticed and the run no longer
\* follows the source.
UBOutcomes == {"crashed", "corrupted"}

\* ------------------------------------------------------------ init()
RAND_MAX == 32767

\* the sequences rand() can produce that the model explores; each is
\* repeated cyclically
Streams == <<
  \* three particles within one length unit of each other, slow, of
  \* different masses
  << 16383, 16383, 0, 16384, 16384, 16384, 3277,
     16547, 16383, 0, 16383, 16400, 16384, 0,
     16383, 16711, 164, 16384, 16383, 16383, 32767 >>,
  \* every particle the same: all coincide, on the upper edge of the ranges
  << 0, 32767, 32767, 0, 32767, 16384, 16384 >>,
  \* two particles of equal mass closer than the softening floor
  << 16383, 16383, 0, 16384, 16384, 16384, 3277,
     16384, 16383, 0, 16384, 16384, 16384, 3277 >> >>

Seeds == 1 .. Len(Streams)

\* the k-th value rand() returns (k = 0, 1, ...)
Rand(s, k) == Streams[s][(k % Len(Streams[s])) + 1]

\* a * r / c, exact quotient rounded toward zero (a, r, c >= 0)
MulDiv(a, r, c) == (a \div c) * r + ((a % c) * r) \div c

\* Faulty variant, for sensitivity of the properties: the mass is drawn first
FieldOrder_MassFirst == <<"mass", "x", "y", "z", "vx", "vy", "vz">>
\* the order in which init() assigns the fields of one particle
FieldOrder == <<"x", "y", "z", "vx", "vy", "vz", "mass">>

min_pos == 0 - 50 * Q
\* Faulty variant, for sensitivity of the properties: the position range is one unit too wide
mult_Wide == 101 * Q
mult == 100 * Q
maxVel == 5 * Q

\* the value init() computes for a field from the draw r; the product with
\* recip = 1.0 / RAND_MAX is taken as the exact quotient by RAND_MAX
InitValue(f, r) ==
  CASE f \in {"x", "y"} -> min_pos + MulDiv(mult, r, RAND_MAX)
    [] f = "z" -> 0 + MulDiv(mult, r, RAND_MAX)
    [] f \in {"vx", "vy", "vz"} -> (-maxVel) + MulDiv(2 * maxVel, r, RAND_MAX)
    [] f = "mass" -> Q \div 10 + MulDiv(10 * Q, r, RAND_MAX)

\* one assignment of init()'s loop: the next draw goes to the next field
InitDraw ==
  /\ pc = "init"
  /\ nrand < 7 * num
  /\ FieldOrder[(nrand % 7) + 1] \notin failed
  /\ \E s \in Seeds :
       /\ (nrand > 0 => s = seed)
       /\ seed' = s
       /\ mem' = [mem EXCEPT ![FieldOrder[(nrand % 7) + 1]][nrand \div 7] =
                    InitValue(FieldOrder[(nrand % 7) + 1], Rand(s, nrand))]
  /\ nrand' = nrand + 1
  /\ UNCHANGED <<num, nsteps, timesteps, pc, failed, rc, totalMass, partial, summed,
                 com, site, axis, ci, time, li, tpc, priv, acc, pre, out,
                 status>>

\* init() stores through a pointer that is NULL
InitNullDeref ==
  /\ pc = "init"
  /\ nrand < 7 * num
  /\ FieldOrder[(nrand % 7) + 1] \in failed
  /\ \E o \in UBOutcomes : pc' = o
  /\ status' = "signal"
  /\ UNCHANGED <<num, nsteps, timesteps, failed, seed, nrand, rc, mem, totalMass,
                 partial, summed, com, site, axis, ci, time, li, tpc, priv,
                 acc, pre, out>>

InitReturn ==
  /\ pc = "init"
  /\ nrand = 7 * num
  /\ rc' = 0
  /\ pc' = "check_rc"
  /\ UNCHANGED <<num, nsteps, timesteps, failed, seed, nrand, mem, totalMass, partial,
                 summed, com, site, axis, ci, time, li, tpc, priv, acc, pre,
                 out, status>>

CheckInit ==
  /\ pc = "check_rc"
  /\ IF rc # 0
     THEN /\ pc' = AbortTarget
          /\ status' = "-99"
          /\ out' = Append(out, Line("ERROR during init()", 0, <<>>))
          /\ totalMass' = totalMass
     ELSE /\ pc' = "reduce"
          /\ status' = status
          /\ out' = Append(out, Line("INIT COMPLETE", 0, <<>>))
          /\ totalMass' = 0
  /\ UNCHANGED <<num, nsteps, timesteps, failed, seed, nrand, rc, mem, partial,
                 summed, com, site, axis, ci, time, li, tpc, priv, acc, pre>>

\* ------------------------------------------------------------ total mass
\* the sum of a function over a finite set of indices
RECURSIVE SumOver(_, _)
SumOver(f, S) ==
  IF S = {} THEN 0
  ELSE LET e == CHOOSE e \in S : TRUE IN f[e] + SumOver(f, S \ {e})

\* Faulty variant, for sensitivity of the properties: only the last thread's copy is kept
Combine_Last(p) == p[NumThreads]
\* reduction(+:totalMass): the private copies p are added up
Combine(p) == SumOver(p, Threads)

\* one iteration of the reduction loop, executed by thread t on its private
\* copy of totalMass
ReduceAdd(i, t) ==
  /\ pc = "reduce"
  /\ i \in Idx \ summed
  /\ "mass" \notin failed
  /\ partial' = [partial EXCEPT ![t] = @ + mem["mass"][i]]
  /\ summed' = summed \cup {i}
  /\ UNCHANGED <<num, nsteps, timesteps, pc, failed, seed, nrand, rc, mem, totalMass,
                 com, site, axis, ci, time, li, tpc, priv, acc, pre, out,
                 status>>

\* end of the reduction: the private copies are combined into totalMass,
\* and main calls calc_centre_mass for t=0
ReduceEnd ==
  /\ pc = "reduce"
  /\ summed = Idx
  /\ totalMass' = totalMass + Combine(partial)
  /\ partial' = [t \in Threads |-> 0]
  /\ summed' = {}
  /\ pc' = "ccm"
  /\ site' = "t0"
  /\ axis' = 0
  /\ UNCHANGED <<num, nsteps, timesteps, failed, seed, nrand, rc, mem, com, ci, time,
                 li, tpc, priv, acc, pre, out, status>>

\* ------------------------------------------------------------ calc_centre_mass
\* Faulty variant, for sensitivity of the properties: the output is reset in the first call only
ComReset_Keep == IF site = "t0" THEN <<0, 0, 0>> ELSE com
\* Faulty variant, for sensitivity of the properties: the output is reset before the first pass only
ComReset_FirstPass == IF axis = 0 THEN <<0, 0, 0>> ELSE com
\* com[0] = 0.0; com[1] = 0.0; com[2] = 0.0 at the top of each pass
ComReset == <<0, 0, 0>>

\* head of the axis loop: leave after two passes, else reset the output
CcmAxis ==
  /\ pc = "ccm"
  /\ IF axis < 2
     THEN /\ com' = ComReset
          /\ ci' = 0
          /\ pc' = "ccm_sum"
     ELSE /\ pc' = "report"
          /\ UNCHANGED <<com, ci>>
  /\ UNCHANGED <<num, nsteps, timesteps, failed, seed, nrand, rc, mem, totalMass,
                 partial, summed, site, axis, time, li, tpc, priv, acc, pre,
                 out, status>>

CcmAdd ==
  /\ pc = "ccm_sum"
  /\ ci < num
  /\ com' = <<com[1] + MulQ(mem["mass"][ci], mem["x"][ci]),
              com[2] + MulQ(mem["mass"][ci], mem["y"][ci]),
              com[3] + MulQ(mem["mass"][ci], mem["z"][ci])>>
  /\ ci' = ci + 1
  /\ UNCHANGED <<num, nsteps, timesteps, pc, failed, seed, nrand, rc, mem, totalMass,
                 partial, summed, site, axis, time, li, tpc, priv, acc, pre,
                 out, status>>

CcmDiv ==
  /\ pc = "ccm_sum"
  /\ ci = num
  /\ com' = <<DivQ(com[1], totalMass), DivQ(com[2], totalMass),
              DivQ(com[3], totalMass)>>
  /\ axis' = axis + 1
  /\ pc' = "ccm"
  /\ UNCHANGED <<num, nsteps, timesteps, failed, seed, nrand, rc, mem, totalMass,
                 partial, summed, site, ci, time, li, tpc, priv, acc, pre,
                 out, status>>

\* ------------------------------------------------------------ main: reports
ReportT0 ==
  /\ pc = "report"
  /\ site = "t0"
  /\ out' = Append(Append(out, Line("At t=0", 0, com)),
                   Line("Now to integrate", 0, <<>>))
  /\ time' = 1
  /\ pc' = "time_loop"
  /\ UNCHANGED <<num, nsteps, timesteps, failed, seed, nrand, rc, mem, totalMass,
                 partial, summed, com, site, axis, ci, li, tpc, priv, acc,
                 pre, status>>

ReportStep ==
  /\ pc = "report"
  /\ site = "step"
  /\ out' = Append(out, Line("End of timestep", time, com))
  /\ time' = time + 1
  /\ pc' = "time_loop"
  /\ UNCHANGED <<num, nsteps, timesteps, failed, seed, nrand, rc, mem, totalMass,
                 partial, summed, com, site, axis, ci, li, tpc, priv, acc,
                 pre, status>>

\* the last printf; control then reaches the end of main
ReportFinal ==
  /\ pc = "report"
  /\ site = "final"
  /\ out' = Append(out, Line("Centre of mass", 0, com))
  /\ pc' = "completed"
  /\ status' = "0"
  /\ UNCHANGED <<num, nsteps, timesteps, failed, seed, nrand, rc, mem, totalMass,
                 partial, summed, com, site, axis, ci, time, li, tpc, priv,
                 acc, pre>>

\* Faulty variant, for sensitivity of the properties: the time loop stops one step early
TimeTest_Short == time < timesteps
\* ------------------------------------------------------------ time loop
\* the test of the time loop
TimeTest == time <= timesteps

\* loop test: another step, or the final summary
TimeLoop ==
  /\ pc = "time_loop"
  /\ IF TimeTest
     THEN /\ pc' = "loop1"
          /\ li' = 0
          /\ pre' = mem
          /\ UNCHANGED <<out, site, axis>>
     ELSE /\ pc' = "ccm"
          /\ site' = "final"
          /\ axis' = 0
          /\ out' = Append(out, Line("Time to init+solve", 0, <<>>))
          /\ UNCHANGED <<li, pre>>
  /\ UNCHANGED <<num, nsteps, timesteps, failed, seed, nrand, rc, mem, totalMass,
                 partial, summed, com, ci, time, tpc, priv, acc, status>>

\* the arrays LOOP1 stores to
SnapshotArrays == {"old_x", "old_y", "old_z", "old_mass"}

\* one iteration of LOOP1
Snapshot ==
  /\ pc = "loop1"
  /\ li < num
  /\ SnapshotArrays \cap failed = {}
  /\ mem' = [mem EXCEPT !["old_x"][li] = mem["x"][li],
                        !["old_y"][li] = mem["y"][li],
                        !["old_z"][li] = mem["z"][li],
                        !["old_mass"][li] = mem["mass"][li]]
  /\ li' = li + 1
  /\ UNCHANGED <<num, nsteps, timesteps, pc, failed, seed, nrand, rc, totalMass,
                 partial, summed, com, site, axis, ci, time, tpc, priv, acc,
                 pre, out, status>>

\* LOOP1 stores through a pointer that is NULL
SnapshotNullDeref ==
  /\ pc = "loop1"
  /\ li < num
  /\ SnapshotArrays \cap failed # {}
  /\ \E o \in UBOutcomes : pc' = o
  /\ status' = "signal"
  /\ UNCHANGED <<num, nsteps, timesteps, failed, seed, nrand, rc, mem, totalMass,
                 partial, summed, com, site, axis, ci, time, li, tpc, priv,
                 acc, pre, out>>

\* Faulty variant, for sensitivity of the properties: LOOP1 is left after its first iteration
Loop1Done_Early == li >= 1 \/ num = 0
\* the exit test of LOOP1
Loop1Done == li = num

\* LOOP1 is over: the parallel region of LOOP2 begins, one iteration per
\* particle, each with fresh private variables
SnapshotEnd ==
  /\ pc = "loop1"
  /\ Loop1Done
  /\ pc' = "loop2"
  /\ tpc' = [i \in Idx |-> "pending"]
  /\ priv' = [i \in Idx |-> PrivInit]
  /\ acc' = [i \in Idx |-> NoAccess]
  /\ UNCHANGED <<num, nsteps, timesteps, failed, seed, nrand, rc, mem, totalMass,
                 partial, summed, com, site, axis, ci, time, li, pre, out,
                 status>>

\* ------------------------------------------------------------ LOOP2
GRAVCONST == Q \div 1000
\* Faulty variant, for sensitivity of the properties: the floor is 0.1
Floor_Wide == Q \div 10
\* the softening floor 0.01
Floor == Q \div 100

Old == [x |-> "old_x", y |-> "old_y", z |-> "old_z"]

\* a location is <<array, index>>; LoadM reads it from the arrays m
LoadM(m, loc) == m[loc[1]][loc[2]]

\* Faulty variant, for sensitivity of the properties: the displacement reads the live position of particle j
OtherPos_Live(a, j) == <<a, j>>
\* the operands of the displacement on axis a: old_a[j] - a[i]
OtherPos(a, j) == <<Old[a], j>>
OwnPos(a, i) == <<a, i>>
\* the masses in the force law: mass[i] and old_mass[j]
OwnMass(i) == <<"mass", i>>
OtherMass(j) == <<"old_mass", j>>
\* Faulty variant, for sensitivity of the properties: the position update starts from the live position
PosBase_Live(a, i) == <<a, i>>
\* the operands of the position update on axis a: old_a[i] + va[i]
PosBase(a, i) == <<Old[a], i>>
\* Faulty variant, for sensitivity of the properties: every iteration updates the velocity slot of particle 0
Vel_Slot0(a, i) == <<"v" \o a, 0>>
\* Faulty variant, for sensitivity of the properties: the velocity update lands in the mass array
Vel_Mass(a, i) == <<"mass", i>>
Vel(a, i) == <<"v" \o a, i>>

\* temp_d and d
Dist(dx, dy, dz) == SqrtQ(MulQ(dx, dx) + MulQ(dy, dy) + MulQ(dz, dz))
ClampFn[temp_d \in Int] == IF temp_d > Floor THEN temp_d ELSE Floor
Clamp(temp_d) == ClampFn[temp_d]
\* F = GRAVCONST * mass[i] * old_mass[j] / (d*d)
Force(mi, mj, d) == DivQ(MulQ(MulQ(GRAVCONST, mi), mj), MulQ(d, d))
\* Faulty variant, for sensitivity of the properties: the acceleration ignores the sign of the displacement
Accel_Unsigned(F, mi, dc, d) == DivQ(MulQ(DivQ(F, mi), Abs(dc)), d)
\* (F/mass[i]) * dc/d for the displacement dc on one axis
Accel(F, mi, dc, d) == DivQ(MulQ(DivQ(F, mi), dc), d)

\* Faulty variant, for sensitivity of the properties: the x accumulator does not start from zero
PrivStart_Dirty == [PrivInit EXCEPT !.j = 0, !.vxLocal = 1, !.vyLocal = 0,
                                    !.vzLocal = 0]
\* the private variables at the top of the j loop
PrivStart == [PrivInit EXCEPT !.j = 0, !.vxLocal = 0, !.vyLocal = 0,
                              !.vzLocal = 0]

\* one pass of the j loop for particle i on the arrays m: the private
\* variables p afterwards
InnerStep(m, p, i) ==
  IF p.j = i THEN [p EXCEPT !.j = p.j + 1]
  ELSE
    LET dx == LoadM(m, OtherPos("x", p.j)) - LoadM(m, OwnPos("x", i))
        dy == LoadM(m, OtherPos("y", p.j)) - LoadM(m, OwnPos("y", i))
        dz == LoadM(m, OtherPos("z", p.j)) - LoadM(m, OwnPos("z", i))
        temp_d == Dist(dx, dy, dz)
        d == Clamp(temp_d)
        F == Force(LoadM(m, OwnMass(i)), LoadM(m, OtherMass(p.j)), d)
        ax == Accel(F, LoadM(m, OwnMass(i)), dx, d)
        ay == Accel(F, LoadM(m, OwnMass(i)), dy, d)
        az == Accel(F, LoadM(m, OwnMass(i)), dz, d)
    IN  [j |-> p.j + 1, dx |-> dx, dy |-> dy, dz |-> dz,
         temp_d |-> temp_d, d |-> d, F |-> F, ax |-> ax, ay |-> ay, az |-> az,
         vxLocal |-> p.vxLocal + ax, vyLocal |-> p.vyLocal + ay,
         vzLocal |-> p.vzLocal + az]

\* the shared locations that pass reads
InnerReads(p, i) ==
  IF p.j = i THEN {}
  ELSE {OtherPos("x", p.j), OwnPos("x", i), OtherPos("y", p.j),
        OwnPos("y", i), OtherPos("z", p.j), OwnPos("z", i),
        OwnMass(i), OtherMass(p.j)}

\* va[i] += vaLocal on the three axes
VelStore(m, p, i) ==
  [m EXCEPT ![Vel("x", i)[1]][Vel("x", i)[2]] = @ + p.vxLocal,
            ![Vel("y", i)[1]][Vel("y", i)[2]] = @ + p.vyLocal,
            ![Vel("z", i)[1]][Vel("z", i)[2]] = @ + p.vzLocal]

VelAccess(i) == {Vel("x", i), Vel("y", i), Vel("z", i)}

\* a[i] = old_a[i] + va[i] on the three axes
PosStore(m, i) ==
  [m EXCEPT ![OwnPos("x", i)[1]][OwnPos("x", i)[2]] =
                LoadM(m, PosBase("x", i)) + LoadM(m, Vel("x", i)),
            ![OwnPos("y", i)[1]][OwnPos("y", i)[2]] =
                LoadM(m, PosBase("y", i)) + LoadM(m, Vel("y", i)),
            ![OwnPos("z", i)[1]][OwnPos("z", i)[2]] =
                LoadM(m, PosBase("z", i)) + LoadM(m, Vel("z", i))]

PosReads(i) == {PosBase("x", i), PosBase("y", i), PosBase("z", i)}
                 \cup VelAccess(i)
PosWrites(i) == {OwnPos("x", i), OwnPos("y", i), OwnPos("z", i)}

\* an iteration of the parallel loop starts: the declarations at its top
TaskStart(i) ==
  /\ tpc[i] = "pending"
  /\ tpc' = [tpc EXCEPT ![i] = "inner"]
  /\ priv' = [priv EXCEPT ![i] = PrivStart]
  /\ UNCHANGED <<num, nsteps, timesteps, pc, failed, seed, nrand, rc, mem, totalMass,
                 partial, summed, com, site, axis, ci, time, li, acc, pre,
                 out, status>>

\* one pass of the j loop
TaskInner(i) ==
  /\ tpc[i] = "inner"
  /\ priv[i].j < num
  /\ priv' = [priv EXCEPT ![i] = InnerStep(mem, priv[i], i)]
  /\ acc' = [acc EXCEPT ![i].rd = @ \cup InnerReads(priv[i], i)]
  /\ UNCHANGED <<num, nsteps, timesteps, pc, failed, seed, nrand, rc, mem, totalMass,
                 partial, summed, com, site, axis, ci, time, li, tpc, pre,
                 out, status>>

\* the j loop is over: update the global velocities
TaskVel(i) ==
  /\ tpc[i] = "inner"
  /\ priv[i].j = num
  /\ mem' = VelStore(mem, priv[i], i)
  /\ acc' = [acc EXCEPT ![i].rd = @ \cup VelAccess(i),
                        ![i].wr = @ \cup VelAccess(i)]
  /\ tpc' = [tpc EXCEPT ![i] = "pos"]
  /\ UNCHANGED <<num, nsteps, timesteps, pc, failed, seed, nrand, rc, totalMass,
                 partial, summed, com, site, axis, ci, time, li, priv, pre,
                 out, status>>

\* calculate the new position
TaskPos(i) ==
  /\ tpc[i] = "pos"
  /\ mem' = PosStore(mem, i)
  /\ acc' = [acc EXCEPT ![i].rd = @ \cup PosReads(i),
                        ![i].wr = @ \cup PosWrites(i)]
  /\ tpc' = [tpc EXCEPT ![i] = "done"]
  /\ UNCHANGED <<num, nsteps, timesteps, pc, failed, seed, nrand, rc, totalMass,
                 partial, summed, com, site, axis, ci, time, li, priv, pre,
                 out, status>>

\* Faulty variant, for sensitivity of the properties: the loop carries a nowait clause
Barrier_Nowait == TRUE
\* the implicit barrier that ends the parallel loop
Barrier == \A i \in Idx : tpc[i] = "done"

\* every thread has passed the barrier: main calls calc_centre_mass
EndLoop2 ==
  /\ pc = "loop2"
  /\ Barrier
  /\ pc' = "ccm"
  /\ site' = "step"
  /\ axis' = 0
  /\ nsteps' = nsteps + 1
  /\ UNCHANGED <<num, timesteps, failed, seed, nrand, rc, mem, totalMass,
                 partial, summed, com, ci, time, li, tpc, priv, acc, pre, out,
                 status>>

Next ==
  \/ Malloc
  \/ CheckMalloc
  \/ InitDraw
  \/ InitNullDeref
  \/ InitReturn
  \/ CheckInit
  \/ \E i \in Idx, t \in Threads : ReduceAdd(i, t)
  \/ ReduceEnd
  \/ CcmAxis
  \/ CcmAdd
  \/ CcmDiv
  \/ ReportT0
  \/ ReportStep
  \/ ReportFinal
  \/ TimeLoop
  \/ Snapshot
  \/ SnapshotNullDeref
  \/ SnapshotEnd
  \/ \E i \in Idx : TaskStart(i)
  \/ \E i \in Idx : TaskInner(i)
  \/ \E i \in Idx : TaskVel(i)
  \/ \E i \in Idx : TaskPos(i)
  \/ EndLoop2

Spec == Init /\ [][Next]_vars

\* the scheduler lets the main thread and every OpenMP thread run: a step
\* that can be taken is eventually taken
FairSpec == Spec /\ WF_vars(Next)

\* ------------------------------------------------------------ two bodies
\* The integrator applied to a chosen pair of particles instead of the one
\* init() draws: two particles of equal mass at rest.  (init() never yields
\* a velocity of exactly zero: -5 + 10*r/RAND_MAX = 0 has no integer root.)
\* each input: the positions of the two particles and their common mass
PairInputs ==
  { \* 0.3 length units apart
    [p0 |-> <<0, 0, 0>>, p1 |-> <<Q \div 10, Q \div 5, Q \div 5>>],
    \* at the same point
    [p0 |-> <<0 - Q \div 4, Q \div 8, Q \div 2>>,
     p1 |-> <<0 - Q \div 4, Q \div 8, Q \div 2>>],
    \* 0.005 length units apart: closer than the softening floor
    [p0 |-> <<10 * Q, 0 - 3 * Q, 7 * Q>>,
     p1 |-> <<10 * Q + Q \div 200, 0 - 3 * Q, 7 * Q>>] }
     \X {Q, 3 * Q + Q \div 4}

\* the arrays after init(), had it produced the pair in
PairArrays(in) ==
  [a \in Arrays |->
     [i \in 0 .. 1 |->
        CASE a = "x" -> IF i = 0 THEN in[1].p0[1] ELSE in[1].p1[1]
          [] a = "y" -> IF i = 0 THEN in[1].p0[2] ELSE in[1].p1[2]
          [] a = "z" -> IF i = 0 THEN in[1].p0[3] ELSE in[1].p1[3]
          [] a \in {"vx", "vy", "vz"} -> 0
          [] a = "mass" -> in[2]
          [] OTHER -> Uninit]]

\* main just after init() has returned 0 and totalMass was set to 0.0
PairInit ==
  /\ num = 2
  /\ timesteps \in 1 .. MaxTS
  /\ pc = "reduce"
  /\ failed = {}
  /\ seed = 0
  /\ nrand = 14
  /\ rc = 0
  /\ \E in \in PairInputs : mem = PairArrays(in)
  /\ totalMass = 0
  /\ partial = [t \in Threads |-> 0]
  /\ summed = {}
  /\ com = <<Uninit, Uninit, Uninit>>
  /\ site = "none"
  /\ axis = 0
  /\ ci = 0
  /\ time = 0
  /\ li = 0
  /\ tpc = [i \in 0 .. 1 |-> "none"]
  /\ priv = [i \in 0 .. 1 |-> PrivInit]
  /\ acc = [i \in 0 .. 1 |-> NoAccess]
  /\ pre = mem
  /\ nsteps = 0
  /\ out = <<Line("Initializing", 0, <<>>), Line("(malloc-ed)", 0, <<>>),
             Line("INIT COMPLETE", 0, <<>>)>>
  /\ status = "running"

\* the steps main can take from there
PairNext ==
  \/ \E i \in Idx, t \in Threads : ReduceAdd(i, t)
  \/ ReduceEnd
  \/ CcmAxis
  \/ CcmAdd
  \/ CcmDiv
  \/ ReportT0
  \/ ReportStep
  \/ ReportFinal
  \/ TimeLoop
  \/ Snapshot
  \/ SnapshotEnd
  \/ \E i \in Idx : TaskStart(i)
  \/ \E i \in Idx : TaskInner(i)
  \/ \E i \in Idx : TaskVel(i)
  \/ \E i \in Idx : TaskPos(i)
  \/ EndLoop2

PairSpec == PairInit /\ [][PairNext]_vars

\* ------------------------------------------------------------ properties
LiveArrays == {"x", "y", "z", "vx", "vy", "vz"}
Axes == {"x", "y", "z"}
OwnSlots(i) == {<<a, i>> : a \in LiveArrays}
ReadOnlyArrays == {"old_x", "old_y", "old_z", "old_mass", "mass"}

\* main is inside the body of the time loop
InStep == pc \in {"loop1", "loop2"}
            \/ (pc \in {"ccm", "ccm_sum", "report"} /\ site = "step")
\* main is inside calc_centre_mass or printing its result
InDiagnostics == pc \in {"ccm", "ccm_sum", "report"}
Running(i) == tpc[i] \in {"inner", "pos"}

\* C1: read-old/write-own.  Inside one parallel loop the iteration for
\* particle i writes only slot i of x, y, z, vx, vy, vz; it reads only the
\* snapshot arrays, mass, and slot i of the live arrays; and no location
\* written by one iteration is read or written by another (no data race).
C1_ReadOldWriteOwn ==
  \A i \in Idx :
    /\ acc[i].wr \subseteq OwnSlots(i)
    /\ \A loc \in acc[i].rd : loc[1] \in ReadOnlyArrays \/ loc \in OwnSlots(i)
    /\ \A k \in Idx \ {i} : acc[i].wr \cap (acc[k].rd \cup acc[k].wr) = {}

\* two iterations in flight together, one having stored its velocity while
\* the other is still reading in its j loop
C1_Witness ==
  \E i, k \in Idx :
    /\ i # k
    /\ tpc[i] = "pos" /\ acc[i].wr # {}
    /\ tpc[k] = "inner" /\ <<"old_x", i>> \in acc[k].rd

\* ---- the sequential reference: particles processed in index order
RECURSIVE InnerAll(_, _, _, _)
InnerAll(m, p, i, n) ==
  IF p.j >= n THEN p ELSE InnerAll(m, InnerStep(m, p, i), i, n)

SeqParticle(m, i, n) ==
  PosStore(VelStore(m, InnerAll(m, PrivStart, i, n), i), i)

RECURSIVE SeqLoop2(_, _, _)
SeqLoop2(m, i, n) ==
  IF i >= n THEN m ELSE SeqLoop2(SeqParticle(m, i, n), i + 1, n)

SeqSnapshot(m) ==
  [m EXCEPT !["old_x"] = m["x"], !["old_y"] = m["y"], !["old_z"] = m["z"],
            !["old_mass"] = m["mass"]]

SeqStep(m, n) == SeqLoop2(SeqSnapshot(m), 0, n)

FieldNo(f) == CHOOSE k \in 1 .. 7 : FieldOrder[k] = f

\* the arrays as init() leaves them for the sequence s
InitArrays(s, n) ==
  [a \in Arrays |->
     [i \in 0 .. n - 1 |->
        IF a \in LiveArrays \cup {"mass"}
        THEN InitValue(a, Rand(s, 7 * i + FieldNo(a) - 1))
        ELSE Uninit]]

RECURSIVE SeqRun(_, _, _)
SeqRun(s, n, t) ==
  IF t = 0 THEN InitArrays(s, n) ELSE SeqStep(SeqRun(s, n, t - 1), n)

RECURSIVE WeightedSum(_, _, _)
WeightedSum(m, a, n) ==
  IF n = 0 THEN 0
  ELSE WeightedSum(m, a, n - 1) + MulQ(m["mass"][n - 1], m[a][n - 1])

SeqTotalMass(m, n) == SumOver(m["mass"], 0 .. n - 1)

SeqCom(m, n) ==
  <<DivQ(WeightedSum(m, "x", n), SeqTotalMass(m, n)),
    DivQ(WeightedSum(m, "y", n), SeqTotalMass(m, n)),
    DivQ(WeightedSum(m, "z", n), SeqTotalMass(m, n))>>

\* C2: determinism across schedules.  Whatever the interleaving of the
\* iterations, when step t is complete the mass, position and velocity of
\* every particle are those of the run that processes the particles one
\* after the other in index order from the same initial state, and the
\* centre of mass printed for step t is the one of that run.
C2_ScheduleIndependent ==
  /\ ((pc = "loop2" /\ \A i \in Idx : tpc[i] = "done")
         => mem = SeqRun(seed, num, time))
  /\ ((pc = "time_loop" /\ Len(out) > 0 /\ out[Len(out)].msg = "End of timestep")
         => out[Len(out)].com = SeqCom(SeqRun(seed, num, out[Len(out)].t), num))

\* the second step of three interacting particles is complete, and the
\* particles were not finished in index order
C2_Witness ==
  /\ num = 3 /\ seed = 1 /\ time = 2 /\ pc = "loop2"
  /\ \A i \in Idx : tpc[i] = "done"
  /\ mem["vx"] # pre["vx"]

\* C3: every force evaluation uses start-of-step positions for both
\* particles.  While the iteration for i is in its j loop, x[i], y[i], z[i]
\* equal old_x[i], old_y[i], old_z[i], and the displacement it has just
\* computed is the difference of the positions j and i had when the step
\* began.
C3_StartOfStepPositions ==
  \A i \in Idx :
    tpc[i] = "inner" =>
      /\ \A a \in Axes : mem[a][i] = mem[Old[a]][i] /\ mem[a][i] = pre[a][i]
      /\ (priv[i].j > 0 /\ priv[i].j - 1 # i) =>
           /\ priv[i].dx = pre["x"][priv[i].j - 1] - pre["x"][i]
           /\ priv[i].dy = pre["y"][priv[i].j - 1] - pre["y"][i]
           /\ priv[i].dz = pre["z"][priv[i].j - 1] - pre["z"][i]

\* iteration i has just read particle k, which has already moved in this step
C3_Witness ==
  \E i, k \in Idx :
    /\ i # k
    /\ tpc[i] = "inner" /\ priv[i].j = k + 1
    /\ tpc[k] = "done" /\ mem["x"][k] # pre["x"][k]

SnapshotComplete ==
  /\ li = num
  /\ \A k \in Idx :
       /\ mem["old_x"][k] = pre["x"][k]
       /\ mem["old_y"][k] = pre["y"][k]
       /\ mem["old_z"][k] = pre["z"][k]
       /\ mem["old_mass"][k] = pre["mass"][k]

\* C4: snapshot barrier.  In every step, once any velocity or position has
\* been written or any iteration of LOOP2 has started, the snapshot of all
\* N particles is complete and equals the values the particles had when the
\* step began; it stays so until the step ends.  While LOOP1 runs, the
\* entries already copied equal the live values and no particle has changed.
C4_SnapshotBarrier ==
  /\ InStep /\ (\E i \in Idx : Running(i) \/ tpc[i] = "pending"
                   \/ \E a \in LiveArrays : mem[a][i] # pre[a][i])
       => SnapshotComplete
  /\ pc \in {"loop2", "ccm", "ccm_sum", "report"} /\ site = "step"
       => SnapshotComplete
  /\ pc = "loop2" => SnapshotComplete
  /\ pc = "loop1" =>
       /\ \A k \in 0 .. li - 1 : mem["old_x"][k] = mem["x"][k]
                                  /\ mem["old_mass"][k] = mem["mass"][k]
       /\ \A a \in LiveArrays : mem[a] = pre[a]

\* a particle has moved in the second step while another has not started
C4_Witness ==
  \E i, k \in Idx :
    /\ pc = "loop2" /\ time = 2
    /\ tpc[i] = "done" /\ mem["x"][i] # pre["x"][i]
    /\ tpc[k] = "pending"
    /\ mem["old_x"][i] # mem["x"][i]

\* C5: end-of-step barrier.  While calc_centre_mass runs or its result is
\* printed, no iteration of LOOP2 is pending or in progress, every
\* particle's position is the committed one (snapshot plus new velocity),
\* and no step of the diagnostics changes any array.
C5_EndOfStepBarrier ==
  /\ [](InDiagnostics =>
          /\ \A i \in Idx : tpc[i] \in {"none", "done"}
          /\ site = "step" =>
               \A i \in Idx : \A a \in Axes :
                 mem[a][i] = mem[Old[a]][i] + mem["v" \o a][i])
  /\ [][InDiagnostics => mem' = mem]_vars

\* the diagnostics of a step are summing over three moved particles
C5_Witness ==
  /\ pc = "ccm_sum" /\ site = "step" /\ ci = 2 /\ num = 3
  /\ mem["x"] # pre["x"]

StepLines == SelectSeq(out, LAMBDA l : l.msg = "End of timestep")
Position(msg) == CHOOSE k \in 1 .. Len(out) : out[k].msg = msg
Printed(msg) == \E k \in 1 .. Len(out) : out[k].msg = msg

\* C6: driver state machine.  The reported step indices are 1, 2, ... in
\* order, each completed step is followed by exactly one report before the
\* next step starts, the t=0 report precedes the first step, and a run that
\* reaches Completed has executed exactly `timesteps` steps, printed
\* `timesteps` step reports and then the final summary, exits with status
\* zero and takes no further step.
C6_DriverStateMachine ==
  /\ \A k \in 1 .. Len(StepLines) : StepLines[k].t = k
  /\ nsteps = Len(StepLines)
       + (IF pc \in {"ccm", "ccm_sum", "report"} /\ site = "step"
          THEN 1 ELSE 0)
  /\ InStep => /\ time = nsteps + (IF pc \in {"loop1", "loop2"} THEN 1 ELSE 0)
               /\ time <= timesteps
  /\ (InStep \/ nsteps > 0) =>
       /\ Printed("At t=0")
       /\ \A k \in 1 .. Len(out) :
            out[k].msg = "End of timestep" => Position("At t=0") < k
  /\ pc = "completed" =>
       /\ nsteps = timesteps
       /\ Len(StepLines) = timesteps
       /\ out[Len(out)].msg = "Centre of mass"
       /\ Cardinality({k \in 1 .. Len(out) : out[k].msg = "Centre of mass"}) = 1
       /\ status = "0"
       /\ ~ ENABLED Next

\* a run of two steps on two or more particles has completed
C6_Witness == pc = "completed" /\ timesteps >= 2 /\ num >= 2 /\ failed = {}

\* C7: allocation failure is fatal before any work.  If any of the eleven
\* allocations failed, then once the check is passed the run is Aborted with
\* a nonzero status, init() has drawn nothing, and no access through a NULL
\* pointer has happened.
C7_AllocFailureFatal ==
  (failed # {} /\ pc \notin {"malloc", "check_malloc"}) =>
     /\ pc = "aborted"
     /\ status = "-99"
     /\ nrand = 0

ErrorLines == {"ERROR in malloc", "ERROR during init()"}

\* C8: every failure is terminal.  A nonzero return of init() leads only to
\* Aborted; once an error message is printed the run is Aborted and the
\* message is its last output; an Aborted run has a nonzero status, has
\* computed no total mass and no centre of mass, has executed no step and
\* printed no report, and takes no further step.
C8_FailureTerminal ==
  /\ (rc \notin {0, Uninit}) => pc \in {"check_rc", "aborted"}
  /\ (\E k \in 1 .. Len(out) : out[k].msg \in ErrorLines) =>
       /\ pc = "aborted"
       /\ out[Len(out)].msg \in ErrorLines
  /\ pc = "aborted" =>
       /\ status = "-99"
       /\ out[Len(out)].msg \in ErrorLines
       /\ totalMass = Uninit
       /\ com = <<Uninit, Uninit, Uninit>>
       /\ nsteps = 0
       /\ ~ Printed("At t=0") /\ ~ Printed("End of timestep")
       /\ ~ Printed("Centre of mass")
       /\ ~ ENABLED Next

\* the run was aborted because the tested allocation failed
C8_Witness == pc = "aborted" /\ "old_mass" \in failed /\ num >= 1

\* C9: termination.  Every fairly scheduled run eventually reaches
\* Completed or Aborted.
C9_Terminates == <>(pc \in {"completed", "aborted"})

\* C10 as stated: for N=1 a step leaves both the velocity and the position
\* of the particle unchanged.
C10_Unchanged ==
  (num = 1 /\ InStep) => \A a \in LiveArrays : mem[a][0] = pre[a][0]

\* C10 as amended: for N=1 every step leaves the velocity unchanged and
\* moves the position by exactly that velocity; after t steps the velocity
\* is the initial one and the position is the initial one plus t times it.
C10_Drift ==
  (num = 1 /\ nrand = 7) =>
     /\ \A a \in Axes : mem["v" \o a][0] = InitArrays(seed, 1)["v" \o a][0]
     /\ (InStep /\ pc # "loop1" /\ tpc[0] = "done") =>
          \A a \in Axes : mem[a][0] = pre[a][0] + pre["v" \o a][0]
     /\ pc \in {"time_loop", "completed"} =>
          \A a \in Axes :
            mem[a][0] = InitArrays(seed, 1)[a][0]
                          + nsteps * InitArrays(seed, 1)["v" \o a][0]

\* the single particle has been through two steps and has moved
C10_Witness ==
  /\ num = 1 /\ nsteps = 2 /\ pc = "time_loop"
  /\ mem["x"][0] # InitArrays(seed, 1)["x"][0]

\* ---- two bodies
\* no iteration of LOOP2 is under way
Quiet == pc # "loop2" \/ \A i \in Idx : tpc[i] = "done"

ComLines == SelectSeq(out, LAMBDA l : l.msg \in {"End of timestep",
                                                 "Centre of mass"})

\* the rounding a centre of mass can carry: two truncated products, divided
\* by the total mass M, and one truncated quotient; twice, for a difference
ComTol(M) == 2 * ((2 * Q) \div M + 2)

\* C11: two-body symmetry.  For two particles of equal mass that start at
\* rest, after every step the two velocities are equal and opposite and the
\* sum of the positions is the one before the step, so that every reported
\* centre of mass equals the one reported for t=0 up to the rounding of its
\* own products and quotient; the accelerations the two iterations computed
\* satisfy mass[0]*a(0<-1) = -mass[1]*a(1<-0) on every axis, also when the
\* separation was raised to the softening floor.
C11_TwoBodySymmetry ==
  /\ Quiet => \A a \in Axes : mem["v" \o a][0] = 0 - mem["v" \o a][1]
  /\ (pc \in {"loop2", "ccm", "ccm_sum", "report"}
        /\ \A i \in Idx : tpc[i] = "done")
       => \A a \in Axes : mem[a][0] + mem[a][1] = pre[a][0] + pre[a][1]
  /\ \A k \in 1 .. Len(ComLines) : \A c \in 1 .. 3 :
       Abs(ComLines[k].com[c] - out[Position("At t=0")].com[c])
         <= ComTol(totalMass)
  /\ (pc = "loop2" /\ \A i \in Idx : tpc[i] \in {"pos", "done"}) =>
       /\ priv[0].d = priv[1].d
       /\ priv[0].F = priv[1].F
       /\ MulQ(mem["mass"][0], priv[0].ax) = 0 - MulQ(mem["mass"][1], priv[1].ax)
       /\ MulQ(mem["mass"][0], priv[0].ay) = 0 - MulQ(mem["mass"][1], priv[1].ay)
       /\ MulQ(mem["mass"][0], priv[0].az) = 0 - MulQ(mem["mass"][1], priv[1].az)

\* two particles closer than the floor have both been accelerated, in a run
\* of two steps
C11_Witness ==
  /\ pc = "loop2" /\ timesteps = 2
  /\ \A i \in Idx : tpc[i] = "done"
  /\ 100 * priv[0].temp_d < Q /\ 100 * priv[0].d = Q
  /\ priv[0].ax # 0 /\ mem["vx"][0] # 0

\* ---- masses
\* init() has returned
Initialized == rc = 0 /\ nrand = 7 * num

\* C12: mass and population are frozen.  No step changes the particle count,
\* and once init() has returned no step changes any mass: at every later
\* state mass[i] is the value init() computed for it, and whenever a centre
\* of mass is being computed or printed, totalMass is the sum of the masses
\* the particles have then.
C12_MassFrozen ==
  /\ [](Initialized =>
          \A i \in Idx :
            mem["mass"][i] = InitValue("mass", Rand(seed, 7 * i + 6)))
  /\ [](InDiagnostics => totalMass = SumOver(mem["mass"], Idx))
  /\ [][num' = num /\ (Initialized => mem'["mass"] = mem["mass"])]_vars

\* the final centre of mass of three particles that went through two steps
C12_Witness ==
  /\ pc = "ccm_sum" /\ site = "final" /\ num = 3 /\ nsteps = 2
  /\ mem["x"] # pre["x"] /\ mem["vx"] # pre["vx"]
  /\ totalMass > 0

\* ---- diagnostics
LastLine == out[Len(out)]

\* C13: diagnostics are pure.  No step of calc_centre_mass, and no printing
\* of its result, changes an array, totalMass or the particle count; and the
\* centre of mass of the final summary, computed with no step in between,
\* is the one reported for the last timestep (for a run of no steps, the one
\* reported for t=0).
C13_DiagnosticsPure ==
  /\ [][InDiagnostics =>
         (mem' = mem /\ totalMass' = totalMass /\ num' = num
            /\ nsteps' = nsteps)]_vars
  /\ [](pc = "completed" =>
          /\ LastLine.msg = "Centre of mass"
          /\ LastLine.com = IF timesteps > 0
                             THEN StepLines[Len(StepLines)].com
                             ELSE out[Position("At t=0")].com)

\* a run of two steps on three particles has printed its final summary
C13_Witness ==
  /\ pc = "completed" /\ timesteps = 2 /\ num = 3
  /\ LastLine.com # out[Position("At t=0")].com
  /\ LastLine.com[1] # 0

\* ---- init()
Fields == {"x", "y", "z", "vx", "vy", "vz", "mass"}

\* the ends of the range the fields are documented to lie in
Lo(f) ==
  CASE f \in {"x", "y"} -> 0 - 50 * Q
    [] f = "z" -> 0
    [] f \in {"vx", "vy", "vz"} -> 0 - 5 * Q
    [] f = "mass" -> Q \div 10
Hi(f) ==
  CASE f \in {"x", "y"} -> 50 * Q
    [] f = "z" -> 100 * Q
    [] f \in {"vx", "vy", "vz"} -> 5 * Q
    [] f = "mass" -> 10 * Q + Q \div 10

\* init() has assigned field f of particle i, and no step has moved it
Assigned(f, i) ==
  /\ 7 * i + FieldNo(f) - 1 < nrand
  /\ pc \in {"init", "check_rc", "reduce"}

\* C14 as stated: every value init() assigns lies in the half-open range of
\* its field, the upper end excluded.
C14_HalfOpen ==
  \A i \in Idx : \A f \in Fields :
    Assigned(f, i) => (Lo(f) <= mem[f][i] /\ mem[f][i] < Hi(f))

\* for every value rand() can return, the value init() computes lies in the
\* closed range and is the upper end exactly for RAND_MAX
AllDrawsInRange ==
  \A r \in 0 .. RAND_MAX : \A f \in Fields :
    /\ Lo(f) <= InitValue(f, r)
    /\ InitValue(f, r) <= Hi(f)
    /\ (InitValue(f, r) = Hi(f)) = (r = RAND_MAX)

\* C14 as amended: every value init() assigns lies in the closed range of
\* its field, mass in [0.1, 10.1], x and y in [-50, 50], z in [0, 100], each
\* velocity component in [-5, 5]; the upper end is produced exactly when
\* rand() returns RAND_MAX; every mass is at least 0.1, hence positive.
C14_ClosedRanges ==
  /\ \A i \in Idx : \A f \in Fields :
       Assigned(f, i) => (Lo(f) <= mem[f][i] /\ mem[f][i] <= Hi(f))
  /\ \A i \in Idx : Assigned("mass", i) => 10 * mem["mass"][i] >= Q
  /\ AllDrawsInRange

\* rand() has returned RAND_MAX for y and z of a particle, which lie on the
\* upper end of their ranges
C14_Witness ==
  /\ pc = "check_rc" /\ num >= 1
  /\ mem["y"][0] = 50 * Q /\ mem["z"][0] = 100 * Q
  /\ Rand(seed, 1) = RAND_MAX

\* the order of the draws of one particle, as documented
DrawOrder == <<"x", "y", "z", "vx", "vy", "vz", "mass">>

\* C15: fixed sampling order.  While init() runs and until the first use of
\* its result, the k-th value of the random sequence (k = 0, 1, ...) has been
\* turned into field number k mod 7, in the order x, y, z, vx, vy, vz, mass,
\* of particle k div 7, for every k below the number of draws made, and no
\* later slot has been assigned; the draws are made one at a time, only by
\* init() on the main thread with no parallel loop under way, and init()
\* returns after exactly 7N draws.
C15_SamplingOrder ==
  /\ [](pc \in {"init", "check_rc", "reduce"} =>
          \A k \in 0 .. 7 * num - 1 :
            LET f == DrawOrder[(k % 7) + 1]
                i == k \div 7
            IN  IF k < nrand
                THEN mem[f][i] = InitValue(f, Rand(seed, k))
                ELSE mem[f][i] = Uninit)
  /\ [](nrand <= 7 * num)
  /\ [](pc \in {"check_rc", "reduce", "ccm", "time_loop", "loop2", "completed"}
          => nrand = 7 * num)
  /\ [](pc = "init" => \A i \in Idx : tpc[i] = "none")
  /\ [][nrand' # nrand => (nrand' = nrand + 1 /\ pc = "init" /\ pc' = "init")]_vars

\* init() has finished particle 0 and drawn x of particle 1, of three
C15_Witness ==
  /\ pc = "init" /\ num = 3 /\ nrand = 8
  /\ mem["mass"][0] # Uninit /\ mem["x"][1] # Uninit /\ mem["y"][1] = Uninit

\* ---- total mass
\* mass[0] + ... + mass[n-1]
RECURSIVE MassSum(_, _)
MassSum(m, n) == IF n = 0 THEN 0 ELSE MassSum(m, n - 1) + m["mass"][n - 1]

\* C16: total-mass reduction.  However the iterations are dealt to the
\* threads and in whatever order they run, during the reduction the private
\* copies add up to the masses of exactly the iterations executed so far
\* (none lost, none twice), and once the reduction has ended totalMass is
\* the sum of all N masses.
C16_TotalMassReduction ==
  /\ pc = "reduce" =>
       /\ totalMass = 0
       /\ summed \subseteq Idx
       /\ SumOver(partial, Threads) = SumOver(mem["mass"], summed)
  /\ pc \in {"ccm", "ccm_sum", "report", "time_loop", "loop1", "loop2",
             "completed"} => totalMass = MassSum(mem, num)

\* the loop over three particles of different masses is complete; one
\* thread took the first and the last particle, the other the middle one
C16_Witness ==
  /\ pc = "reduce" /\ num = 3 /\ seed = 1 /\ summed = Idx
  /\ partial[1] = mem["mass"][1]
  /\ partial[2] = mem["mass"][0] + mem["mass"][2]
  /\ mem["mass"][0] # mem["mass"][1] /\ mem["mass"][1] # mem["mass"][2]

\* ---- update order
\* the private variables of iteration i once its j loop has run to the end
\* on the arrays the step began with
FullSum(i) == InnerAll(SeqSnapshot(pre), PrivStart, i, num)

\* C17: update order within a particle.  In every step, for every particle
\* i: while its j loop runs, neither its velocity nor its position has
\* changed; the velocity is then raised by the acceleration accumulated over
\* all j # i, the position still being the old one; and the position is
\* finally set to the start-of-step position plus the new velocity, which it
\* reads from old_x, old_y, old_z and vx, vy, vz and not from x, y, z.
C17_UpdateOrder ==
  pc = "loop2" =>
    \A i \in Idx :
      /\ tpc[i] \in {"pending", "inner"} =>
           \A a \in LiveArrays : mem[a][i] = pre[a][i]
      /\ tpc[i] \in {"pos", "done"} =>
           /\ priv[i].j = num
           /\ priv[i].vxLocal = FullSum(i).vxLocal
           /\ priv[i].vyLocal = FullSum(i).vyLocal
           /\ priv[i].vzLocal = FullSum(i).vzLocal
           /\ mem["vx"][i] = pre["vx"][i] + priv[i].vxLocal
           /\ mem["vy"][i] = pre["vy"][i] + priv[i].vyLocal
           /\ mem["vz"][i] = pre["vz"][i] + priv[i].vzLocal
      /\ tpc[i] = "pos" => \A a \in Axes : mem[a][i] = pre[a][i]
      /\ tpc[i] = "done" =>
           /\ \A a \in Axes : mem[a][i] = pre[a][i] + mem["v" \o a][i]
           /\ num = 1 =>
                acc[i].rd = {<<"old_x", i>>, <<"old_y", i>>, <<"old_z", i>>,
                             <<"vx", i>>, <<"vy", i>>, <<"vz", i>>}

\* a particle has been accelerated and moved: its new position is neither
\* the old one plus the old velocity nor the old one
C17_Witness ==
  \E i \in Idx :
    /\ pc = "loop2" /\ tpc[i] = "done" /\ num = 3
    /\ priv[i].vxLocal # 0
    /\ mem["x"][i] # pre["x"][i] + pre["vx"][i]
    /\ mem["x"][i] # pre["x"][i]

\* ---- softening floor
NonFinite == {NaN, PosInf, NegInf, Uninit}

\* displacements around zero and around the floor, in grid units, and the
\* smallest and the largest mass init() produces
NearDisp == (0 - 2 .. 2) \cup {0 - 101, 0 - 100, 0 - 99, 99, 100, 101}
EdgeMasses == {Q \div 10, 10 * Q + Q \div 10}

\* for every small displacement and the extreme masses, the separation used
\* is at least 0.01, its square is not zero, and force and acceleration are
\* finite
AllSeparationsFloored ==
  \A dx \in NearDisp, dy \in NearDisp, dz \in {0, 1, 100} :
    \A mi \in EdgeMasses, mj \in EdgeMasses :
      LET d == Clamp(Dist(dx, dy, dz))
          F == Force(mi, mj, d)
      IN  /\ 100 * d >= Q
          /\ MulQ(d, d) > 0
          /\ F \notin NonFinite
          /\ Accel(F, mi, dx, d) \notin NonFinite
          /\ dx = 0 => Accel(F, mi, dx, d) = 0

\* C18: softening floor.  In every force evaluation of LOOP2 the separation
\* d is the computed distance if that exceeds 0.01 and 0.01 otherwise, so
\* d >= 0.01; the divisors d*d, mass[i] and d are never zero; force and
\* accelerations are finite; and for two particles at the same point d is
\* 0.01 and the acceleration is zero on every axis.
C18_SofteningFloor ==
  /\ \A i \in Idx :
       (pc = "loop2" /\ tpc[i] \in {"inner", "pos", "done"}
          /\ priv[i].d # Uninit) =>
         /\ 100 * priv[i].d >= Q
         /\ priv[i].d = IF 100 * priv[i].temp_d > Q THEN priv[i].temp_d
                        ELSE Q \div 100
         /\ MulQ(priv[i].d, priv[i].d) > 0
         /\ mem["mass"][i] > 0
         /\ {priv[i].F, priv[i].ax, priv[i].ay, priv[i].az, priv[i].vxLocal,
             priv[i].vyLocal, priv[i].vzLocal} \cap NonFinite = {}
         /\ (priv[i].dx = 0 /\ priv[i].dy = 0 /\ priv[i].dz = 0) =>
              /\ 100 * priv[i].d = Q
              /\ priv[i].ax = 0 /\ priv[i].ay = 0 /\ priv[i].az = 0
  /\ AllSeparationsFloored

\* an iteration has just evaluated the force of a particle at its own
\* position
C18_Witness ==
  \E i \in Idx :
    /\ pc = "loop2" /\ tpc[i] = "inner" /\ num >= 2
    /\ priv[i].j >= 1 /\ priv[i].j - 1 # i
    /\ priv[i].dx = 0 /\ priv[i].dy = 0 /\ priv[i].dz = 0
    /\ priv[i].temp_d = 0 /\ 100 * priv[i].d = Q
    /\ priv[i].F > 0 /\ priv[i].ax = 0

\* ---- the two passes of calc_centre_mass
\* what one pass returns: the sums of mass[i]*pos[i], each divided once
SinglePass ==
  <<DivQ(WeightedSum(mem, "x", num), totalMass),
    DivQ(WeightedSum(mem, "y", num), totalMass),
    DivQ(WeightedSum(mem, "z", num), totalMass)>>

\* C19: redundant diagnostics pass.  In either pass of the axis loop the
\* output, while it is being summed, is the sum of mass[i]*pos[i] over the
\* particles added so far in that pass alone (no earlier quotient enters
\* it, so no sum is divided twice); after the first pass, after the second,
\* and when the result is printed, the output is what a single pass returns.
C19_RedundantPass ==
  /\ pc = "ccm_sum" =>
       /\ axis \in {0, 1}
       /\ com = <<WeightedSum(mem, "x", ci), WeightedSum(mem, "y", ci),
                  WeightedSum(mem, "z", ci)>>
  /\ ((pc = "ccm" /\ axis >= 1) \/ pc = "report") => com = SinglePass

\* the second pass over three moved particles has ended
C19_Witness ==
  /\ pc = "ccm" /\ axis = 2 /\ site = "step" /\ num = 3
  /\ com[1] # 0 /\ com[1] \notin NonFinite
  /\ mem["x"] # pre["x"]
====
